---- MODULE Spec2Model ----
(***************************************************************************)
(* Model of src/app.py: the "PPT Voice Over Studio" Streamlit script.      *)
(*                                                                         *)
(* Strings are sequences of one-character strings over a three-letter      *)
(* alphabet: a letter, the full stop and the blank.  chunk_text and the    *)
(* str methods it uses (split, strip) are operators computed the way       *)
(* Python computes them.                                                   *)
(***************************************************************************)
EXTENDS Integers, Sequences, FiniteSets, TLC

\* ------------------------------------------------------------------ bounds
MaxTextLen == 5        \* longest text handed to chunk_text on its own
MaxCharsBound == 4     \* largest max_chars handed to chunk_text on its own
TtsTextLen == 4        \* longest text handed to openai_tts on its own
MaxScript == 4         \* provider calls whose outcome the environment scripts
MaxSlides == 2         \* most slides in an uploaded deck
DefaultMaxChars == 3   \* chunk_text's default max_chars (900), scaled down
                       \* so that short texts split into several chunks

\* ------------------------------------------------------- program constants
Retries == 3           \* openai_tts(..., retries=3)
BackoffBase == 2       \* time.sleep(2 * attempt)
ClearMin == 20         \* is_text_clear: len(text.strip()) >= 20

Alphabet == {"a", ".", " "}

Texts == UNION {[1..n -> Alphabet] : n \in 0..MaxTextLen}

\* ------------------------------------------------------------------ state
VARIABLES ct_text, ct_max, ct_pc, ct_out,
          tts_text, tts_script, tts_pitch, tts_res,
          ppt_file,      \* the file in the uploader widget
          slides,        \* st.session_state.slides
          ppt_loaded,    \* st.session_state.ppt_loaded
          ppt_path,      \* st.session_state.ppt_path: the saved upload
          ppt_name,      \* st.session_state.ppt_name
          edited,        \* the user has edited a narration since the load
          gen_raised,    \* slide indices whose generate_narration call raised
          pc,            \* position of the running script, or "idle"
          last,          \* how the last script run ended
          gi,            \* i of the final-generation loop
          prs,           \* the Presentation of the final-generation run
          mp3,           \* the audio file of the slide being processed
          pitch,         \* the sidebar's pitch as this run read it
          progress,      \* numerator of the progress bar (of len(slides))
          synth_log,     \* slide indices handed to openai_tts in this run
          embed_log,     \* slide indices handed to add_audio_to_slide
          tts_raised,    \* slide indices whose openai_tts call raised
          embed_raised,  \* slide indices whose add_audio_to_slide raised
          again,         \* this run was started on top of a finished one
          saves,         \* prs.save calls of this run
          output         \* the deck file this run has written

\* ------------------------------------------------------- str.strip / split
RECURSIVE lstrip(_)
lstrip(s) ==
    IF s # <<>> /\ Head(s) = " " THEN lstrip(Tail(s)) ELSE s

RECURSIVE rstrip(_)
rstrip(s) ==
    IF s # <<>> /\ s[Len(s)] = " " THEN rstrip(SubSeq(s, 1, Len(s) - 1)) ELSE s

strip(s) == rstrip(lstrip(s))

\* index of the first ". " in s, or 0
FindSep(s) ==
    LET hits == {i \in 1..(Len(s) - 1) : s[i] = "." /\ s[i + 1] = " "}
    IN  IF hits = {} THEN 0 ELSE CHOOSE i \in hits : \A j \in hits : i <= j

\* text.split(". ")
RECURSIVE split(_)
split(s) ==
    LET i == FindSep(s)
    IN  IF i = 0 THEN <<s>>
        ELSE <<SubSeq(s, 1, i - 1)>> \o split(SubSeq(s, i + 2, Len(s)))

Sep == <<".", " ">>

\* ------------------------------------------------------------- chunk_text
\* one iteration of the for loop; st = [chunks, current]
ChunkStep(st, sentence, max_chars) ==
    IF Len(st.current) + Len(sentence) < max_chars
    THEN [chunks |-> st.chunks, current |-> st.current \o sentence \o Sep]
    ELSE [chunks |-> Append(st.chunks, strip(st.current)),
          current |-> sentence \o Sep]

RECURSIVE ChunkLoop(_, _, _)
ChunkLoop(st, sentences, max_chars) ==
    IF sentences = <<>> THEN st
    ELSE ChunkLoop(ChunkStep(st, Head(sentences), max_chars),
                   Tail(sentences), max_chars)

ChunkFlush_NoFinal(st) == st.chunks

\* the final flush
ChunkFlush(st) ==
    IF strip(st.current) # <<>> THEN Append(st.chunks, strip(st.current))
    ELSE st.chunks

chunk_text(text, max_chars) ==
    ChunkFlush(ChunkLoop([chunks |-> <<>>, current |-> <<>>],
                         split(text), max_chars))

\* -------------------------------------------------------------- apply_pitch
\* The audio file: the bytes written while streaming, and whether
\* apply_pitch re-encoded them.
apply_pitch(file, pitch_change) ==
    IF pitch_change = 0 THEN [bytes |-> file, pitched |-> FALSE]
    ELSE [bytes |-> file, pitched |-> TRUE]

\* --------------------------------------------------------------- openai_tts
\* The speech provider is the environment.  A script fixes the outcome of
\* its successive calls: "ok" streams the whole response, "partial" streams
\* the first block and then fails, "fail" fails before any byte.  Calls
\* beyond the script succeed.
Outcomes == {"ok", "fail", "partial"}

Scripts == UNION {[1..n -> Outcomes] : n \in 0..MaxScript}

Provider(script, k) == IF k <= Len(script) THEN script[k] ELSE "ok"

\* response.iter_bytes() yields two blocks for chunk number ci
Block(ci, b) == [chunk |-> ci, block |-> b]

Streamed(ci, outcome) ==
    CASE outcome = "ok" -> <<Block(ci, 1), Block(ci, 2)>>
      [] outcome = "partial" -> <<Block(ci, 1)>>
      [] OTHER -> <<>>

CallEv(ci, outcome) == [ev |-> "call", chunk |-> ci, result |-> outcome, secs |-> 0]
SleepEv(ci, s) == [ev |-> "sleep", chunk |-> ci, result |-> "", secs |-> s]
RaiseEv(ci) == [ev |-> "raise", chunk |-> ci, result |-> "", secs |-> 0]

OnFailure_RaiseEarly(acc, ci, attempt, retries) ==
    LET slept == Append(acc.trace, SleepEv(ci, BackoffBase * (attempt + 1)))
    IN  IF attempt + 1 >= retries - 1
        THEN [acc EXCEPT !.trace = Append(slept, RaiseEv(ci)), !.status = "raised"]
        ELSE [acc EXCEPT !.trace = slept]

OnFailure_NoRaise(acc, ci, attempt, retries) ==
    [acc EXCEPT !.trace = Append(acc.trace,
                                 SleepEv(ci, BackoffBase * (attempt + 1)))]

\* the except branch: attempt += 1; time.sleep(2 * attempt);
\* if attempt == retries: raise
OnFailure(acc, ci, attempt, retries) ==
    LET slept == Append(acc.trace, SleepEv(ci, BackoffBase * (attempt + 1)))
    IN  IF attempt + 1 = retries
        THEN [acc EXCEPT !.trace = Append(slept, RaiseEv(ci)), !.status = "raised"]
        ELSE [acc EXCEPT !.trace = slept]

\* the for loop over chunks with its inner while loop; k counts the
\* provider calls made so far, acc = [file, trace, status]
RECURSIVE TtsLoop(_, _, _, _, _, _, _)
TtsLoop(chunks, ci, attempt, k, acc, script, retries) ==
    IF ci > Len(chunks) THEN acc
    ELSE IF ~(attempt < retries)
    THEN TtsLoop(chunks, ci + 1, 0, k, acc, script, retries)
    ELSE LET outcome == Provider(script, k + 1)
             called == [acc EXCEPT
                          !.file = acc.file \o Streamed(ci, outcome),
                          !.trace = Append(acc.trace, CallEv(ci, outcome))]
         IN  IF outcome = "ok"
             THEN TtsLoop(chunks, ci + 1, 0, k + 1, called, script, retries)
             ELSE LET failed == OnFailure(called, ci, attempt, retries)
                  IN  IF failed.status = "raised" THEN failed
                      ELSE TtsLoop(chunks, ci, attempt + 1, k + 1, failed,
                                   script, retries)

\* result: status "returned" or "raised", the chunks submitted, the events
\* in order, and the audio file left at out_mp3
openai_tts(text, script, pitch_change, retries) ==
    LET chunks == chunk_text(text, DefaultMaxChars)
        run == TtsLoop(chunks, 1, 0, 0,
                       [file |-> <<>>, trace |-> <<>>, status |-> "running"],
                       script, retries)
    IN  IF run.status = "raised"
        THEN [status |-> "raised", chunks |-> chunks, trace |-> run.trace,
              audio |-> [bytes |-> run.file, pitched |-> FALSE]]
        ELSE [status |-> "returned", chunks |-> chunks, trace |-> run.trace,
              audio |-> apply_pitch(run.file, pitch_change)]

\* the scripts the app is run against: the provider fails n times in a
\* row before any byte, then succeeds (n = Retries: openai_tts raises).
\* Other scripts give the app the same status and the same audio or, with a
\* partly streamed response, other audio bytes only.
AppScripts == {[k \in 1..n |-> "fail"] : n \in 0..Retries}

TtsTexts == UNION {[1..n -> Alphabet] : n \in 0..TtsTextLen}

PitchValues == {0, 1}

NoResult == [status |-> "none", chunks |-> <<>>, trace |-> <<>>,
             audio |-> [bytes |-> <<>>, pitched |-> FALSE]]

\* ------------------------------------------------------------ the deck
\* is_text_clear (defined by the script, called nowhere in it)
is_text_clear(text) == text # <<>> /\ Len(strip(text)) >= ClearMin

ThisSlide == <<"t", "h", "i", "s", " ", "s", "l", "i", "d", "e">>

\* get_slide_title, on a slide whose title shape holds `title`
\* (<<>> when there is no title shape)
get_slide_title(slide) ==
    IF strip(slide.title) # <<>> THEN strip(slide.title) ELSE ThisSlide

\* a slide of an uploaded deck: the joined text of its non-title shapes,
\* its title and the text of its notes placeholder
ClearText == [i \in 1..ClearMin |-> "a"]
SlideTexts == {<<>>, ClearText}
Titles == {<<"T">>}
DeckNotes == {<<>>, <<"o">>}

DeckSlides == [text : SlideTexts, title : Titles, notes : DeckNotes]

Decks == UNION {[1..n -> DeckSlides] : n \in 0..MaxSlides}

\* what the chat model may answer, and what the user may type
GenContents == {<<" ">>, <<"a", ".", " ", "a">>}
EditTexts == {<<>>, <<"a", ".", " ", "a">>}

NoFile == [present |-> FALSE, deck |-> <<>>, name |-> ""]
DeckName == "deck.pptx"

\* generate_narration when the chat call answers `content`
generate_narration(content) == strip(content)

\* the record appended for slide number idx (0-based)
SlideRecord(slide, idx, content) ==
    [index |-> idx,
     text |-> IF strip(slide.text) # <<>> THEN strip(slide.text)
              ELSE get_slide_title(slide),
     notes |-> generate_narration(content),
     skip |-> FALSE]

\* the extraction loop: records for the first k slides of the deck
ExtractSlides(deck, contents, k) ==
    [i \in 1..k |-> SlideRecord(deck[i], i - 1, contents[i])]

clear_Keep(list) == list

\* st.session_state.slides.clear()
clear(list) == <<>>

Presentation_FromOutput(deck) ==
    IF output.state = "complete" THEN output.deck
    ELSE [i \in 1..Len(deck) |-> [media |-> <<>>, notes |-> deck[i].notes]]

\* Presentation(ppt_path): the in-memory deck of a final-generation run
Presentation(deck) ==
    [i \in 1..Len(deck) |-> [media |-> <<>>, notes |-> deck[i].notes]]

add_audio_to_slide_Twice(pres, idx, audio) ==
    [pres EXCEPT ![idx + 1].media = Append(Append(@, audio), audio)]

\* add_audio_to_slide on pres.slides[idx]
add_audio_to_slide(pres, idx, audio) ==
    [pres EXCEPT ![idx + 1].media = Append(@, audio)]

write_notes_TextField(pres, idx, notes, ok) ==
    IF ok THEN [pres EXCEPT ![idx + 1].notes = slides[idx + 1].text] ELSE pres

\* slide.notes_slide.placeholders[1].text = notes, inside try/except
write_notes(pres, idx, notes, ok) ==
    IF ok THEN [pres EXCEPT ![idx + 1].notes = notes] ELSE pres

AfterSlide_SaveEarly(i, total) == "save"

\* where the for loop goes after slide number i of total
AfterSlide(i, total) == IF i < total THEN "progress" ELSE "save"

NoAudio == [bytes |-> <<>>, pitched |-> FALSE]
NoOutput == [state |-> "none", deck |-> <<>>]

Running == {"progress", "tts", "embed", "notes", "save"}

ctVars == <<ct_text, ct_max, ct_pc, ct_out>>
ttsVars == <<tts_text, tts_script, tts_pitch, tts_res>>
sessionVars == <<ppt_file, slides, ppt_loaded, ppt_path, ppt_name, edited,
                 gen_raised>>
runVars == <<gi, prs, mp3, pitch, progress, synth_log, embed_log, tts_raised,
             embed_raised, again, saves, output>>
appVars == <<sessionVars, pc, last, runVars>>
vars == <<ctVars, ttsVars, appVars>>

\* ------------------------------------------------ chunk_text on its own
CtIdle ==
    /\ ct_text = <<>>
    /\ ct_max = 1
    /\ ct_pc = "off"
    /\ ct_out = <<>>

TtsIdle ==
    /\ tts_text = <<>>
    /\ tts_script = <<>>
    /\ tts_pitch = 0
    /\ tts_res = NoResult

\* the session state as lines 38-45 leave it, before any upload
AppInit ==
    /\ ppt_file = NoFile
    /\ slides = <<>>
    /\ ppt_loaded = FALSE
    /\ ppt_path = NoFile
    /\ ppt_name = ""
    /\ edited = FALSE
    /\ gen_raised = {}
    /\ pc = "idle"
    /\ last = "none"
    /\ gi = 0
    /\ prs = <<>>
    /\ mp3 = NoAudio
    /\ pitch = 0
    /\ progress = 0
    /\ synth_log = <<>>
    /\ embed_log = <<>>
    /\ tts_raised = {}
    /\ embed_raised = {}
    /\ again = FALSE
    /\ saves = 0
    /\ output = NoOutput

InitChunk ==
    /\ ct_text \in Texts
    /\ ct_max \in 1..MaxCharsBound
    /\ ct_pc = "ready"
    /\ ct_out = <<>>
    /\ TtsIdle
    /\ AppInit

CallChunkText ==
    /\ ct_pc = "ready"
    /\ ct_out' = chunk_text(ct_text, ct_max)
    /\ ct_pc' = "done"
    /\ UNCHANGED <<ct_text, ct_max, ttsVars, appVars>>

NextChunk == CallChunkText

SpecChunk == InitChunk /\ [][NextChunk]_vars

\* ------------------------------------------------ openai_tts on its own
InitTts ==
    /\ tts_text \in TtsTexts
    /\ tts_script \in Scripts
    /\ tts_pitch \in PitchValues
    /\ tts_res = NoResult
    /\ CtIdle
    /\ AppInit

CallTts ==
    /\ tts_res.status = "none"
    /\ tts_res' = openai_tts(tts_text, tts_script, tts_pitch, Retries)
    /\ UNCHANGED <<tts_text, tts_script, tts_pitch, ctVars, appVars>>

NextTts == CallTts

SpecTts == InitTts /\ [][NextTts]_vars

\* ------------------------------------------------------ the Streamlit app
\* Every user interaction reruns the script from the top; pc = "idle" is
\* the script waiting for the next interaction.  A run of the final
\* generation block is stepped through its loop.

Init ==
    /\ AppInit
    /\ CtIdle
    /\ TtsIdle

\* a new script run: nothing of the previous run's locals is left
FreshRun ==
    /\ gi' = 0
    /\ prs' = <<>>
    /\ mp3' = NoAudio
    /\ pitch' = 0
    /\ progress' = 0
    /\ synth_log' = <<>>
    /\ embed_log' = <<>>
    /\ tts_raised' = {}
    /\ embed_raised' = {}
    /\ again' = FALSE
    /\ saves' = 0
    /\ output' = NoOutput

\* an exception ends the script run; its Presentation is dropped
Die(how) ==
    /\ pc' = "idle"
    /\ last' = how
    /\ prs' = <<>>
    /\ mp3' = NoAudio

\* lines 184-213: the upload block.  The chat model answers contents[i]
\* for slide i, or raises at slide failAt (0: never)
LoadDeck ==
    /\ pc = "idle"
    /\ ~ppt_loaded
    /\ \E d \in Decks :
       \E contents \in [1..Len(d) -> GenContents] :
       \E failAt \in 0..Len(d) :
          /\ ppt_file' = [present |-> TRUE, deck |-> d, name |-> DeckName]
          /\ IF failAt = 0
             THEN /\ slides' = clear(slides) \o ExtractSlides(d, contents, Len(d))
                  /\ ppt_loaded' = TRUE
                  /\ ppt_path' = ppt_file'
                  /\ ppt_name' = DeckName
                  /\ last' = "loaded"
                  /\ gen_raised' = {}
             ELSE /\ slides' = clear(slides)
                                \o ExtractSlides(d, contents, failAt - 1)
                  /\ last' = "load_failed"
                  /\ gen_raised' = {failAt - 1}
                  /\ UNCHANGED <<ppt_loaded, ppt_path, ppt_name>>
    /\ FreshRun
    /\ UNCHANGED <<edited, pc, ctVars, ttsVars>>

\* lines 219-226: the user changes the narration text of slide i
EditNotes ==
    /\ pc = "idle"
    /\ ppt_loaded
    /\ \E i \in 1..Len(slides) :
       \E t \in EditTexts :
          /\ t # slides[i].notes
          /\ slides' = [slides EXCEPT ![i].notes = t]
          /\ edited' = TRUE
    /\ last' = "edited"
    /\ FreshRun
    /\ UNCHANGED <<ppt_file, ppt_loaded, ppt_path, ppt_name, gen_raised, pc,
                   ctVars, ttsVars>>

\* lines 228-236: the Preview Voice button of slide i
PreviewVoice ==
    /\ pc = "idle"
    /\ ppt_loaded
    /\ \E i \in 1..Len(slides) :
          last' \in {IF openai_tts(slides[i].notes, script, p, Retries).status
                         = "returned"
                      THEN "previewed" ELSE "preview_failed" :
                      script \in AppScripts, p \in PitchValues}
    /\ FreshRun
    /\ UNCHANGED <<sessionVars, pc, ctVars, ttsVars>>

\* lines 242-247: the Download button starts a final-generation run
ClickDownload ==
    /\ pc = "idle"
    /\ ppt_loaded
    /\ prs' = Presentation(ppt_path.deck)
    /\ gi' = 1
    /\ progress' = 0
    /\ mp3' = NoAudio
    /\ pitch' \in PitchValues
    /\ synth_log' = <<>>
    /\ embed_log' = <<>>
    /\ tts_raised' = {}
    /\ embed_raised' = {}
    /\ again' = (output.state = "complete")
    /\ saves' = 0
    /\ output' = NoOutput
    /\ pc' = IF Len(slides) >= 1 THEN "progress" ELSE "save"
    /\ last' = "running"
    /\ UNCHANGED <<sessionVars, ctVars, ttsVars>>

\* lines 249-253
GenProgress ==
    /\ pc = "progress"
    /\ progress' = gi
    /\ pc' = "tts"
    /\ UNCHANGED <<sessionVars, last, gi, prs, mp3, pitch, synth_log,
                   embed_log, tts_raised, embed_raised, again, saves, output,
                   ctVars, ttsVars>>

\* lines 255-260
GenSynth ==
    /\ pc = "tts"
    /\ synth_log' = Append(synth_log, [index |-> slides[gi].index,
                                       text |-> slides[gi].notes])
    /\ \E script \in AppScripts :
          LET res == openai_tts(slides[gi].notes, script, pitch, Retries)
          IN  IF res.status = "returned"
              THEN /\ mp3' = res.audio
                   /\ pc' = "embed"
                   /\ UNCHANGED <<last, prs, tts_raised>>
              ELSE /\ tts_raised' = tts_raised \cup {slides[gi].index}
                   /\ Die("gen_failed")
    /\ UNCHANGED <<sessionVars, gi, pitch, progress, embed_log, embed_raised,
                   again, saves, output, ctVars, ttsVars>>

\* line 262
GenEmbed ==
    /\ pc = "embed"
    /\ \E ok \in BOOLEAN :
          IF ok
          THEN /\ prs' = add_audio_to_slide(prs, slides[gi].index, mp3)
               /\ embed_log' = Append(embed_log, slides[gi].index)
               /\ pc' = "notes"
               /\ UNCHANGED <<last, mp3, embed_raised>>
          ELSE /\ embed_raised' = embed_raised \cup {slides[gi].index}
               /\ Die("embed_failed")
               /\ UNCHANGED embed_log
    /\ UNCHANGED <<sessionVars, gi, pitch, progress, synth_log, tts_raised,
                   again, saves, output, ctVars, ttsVars>>

\* lines 264-267, and the loop's step to the next slide
GenNotes ==
    /\ pc = "notes"
    /\ \E ok \in BOOLEAN :
          prs' = write_notes(prs, slides[gi].index, slides[gi].notes, ok)
    /\ pc' = AfterSlide(gi, Len(slides))
    /\ gi' = gi + 1
    /\ UNCHANGED <<sessionVars, last, mp3, pitch, progress, synth_log,
                   embed_log, tts_raised, embed_raised, again, saves, output,
                   ctVars, ttsVars>>

SaveOutcomes == {"ok", "fail_nofile", "fail_partial"}

\* lines 269-277: prs.save and the download button
GenSave ==
    /\ pc = "save"
    /\ saves' = saves + 1
    /\ \E outcome \in SaveOutcomes :
          /\ output' = CASE outcome = "ok" -> [state |-> "complete", deck |-> prs]
                         [] outcome = "fail_partial" -> [state |-> "partial", deck |-> <<>>]
                         [] OTHER -> NoOutput
          /\ Die(IF outcome = "ok" THEN "offered" ELSE "save_failed")
    /\ UNCHANGED <<sessionVars, gi, pitch, progress, synth_log, embed_log,
                   tts_raised, embed_raised, again, ctVars, ttsVars>>

\* an interaction during the run makes Streamlit stop the script
Interrupt ==
    /\ pc \in Running
    /\ Die("interrupted")
    /\ UNCHANGED <<sessionVars, gi, pitch, progress, synth_log, embed_log,
                   tts_raised, embed_raised, again, saves, output, ctVars,
                   ttsVars>>

Next ==
    \/ LoadDeck
    \/ EditNotes
    \/ PreviewVoice
    \/ ClickDownload
    \/ GenProgress
    \/ GenSynth
    \/ GenEmbed
    \/ GenNotes
    \/ GenSave
    \/ Interrupt

Spec == Init /\ [][Next]_vars

\* =================================================================== claims
\* ----------------------------------------------------------------------
\* helpers for stating the claims about chunk_text
Sentences(text) == split(text)

\* the sentences a chunk holds: a chunk is its sentences, each followed by
\* ". ", with the outer blanks trimmed; the empty chunk holds none
ChunkSentences(c) ==
    IF c = <<>> THEN <<>>
    ELSE LET p == split(c \o <<" ">>)
         IN  IF p[Len(p)] = <<>> THEN SubSeq(p, 1, Len(p) - 1) ELSE p

RECURSIVE Flatten(_)
Flatten(ss) == IF ss = <<>> THEN <<>> ELSE Head(ss) \o Flatten(Tail(ss))

Trimmed(ss) == [i \in 1..Len(ss) |-> strip(ss[i])]

SentencesOfChunks(chunks) ==
    Flatten([i \in 1..Len(chunks) |-> ChunkSentences(chunks[i])])

\* C1: every chunk returned by chunk_text(text, max_chars) has length
\* <= max_chars, unless a sentence of the text is longer than max_chars and
\* the chunk is exactly that sentence (with the separator's full stop).
C1_ChunkBound ==
    ct_pc = "done" =>
        \A i \in 1..Len(ct_out) :
            \/ Len(ct_out[i]) <= ct_max
            \/ \E j \in 1..Len(Sentences(ct_text)) :
                  /\ Len(Sentences(ct_text)[j]) > ct_max
                  /\ ct_out[i] = strip(Sentences(ct_text)[j] \o Sep)

\* C2: the sentences obtained from the chunks, in order, are the sentences
\* of the input text (compared with their outer blanks trimmed): none is
\* lost, duplicated, reordered or added.
C2_SentencesPreserved ==
    ct_pc = "done" =>
        Trimmed(SentencesOfChunks(ct_out)) = Trimmed(Sentences(ct_text))

\* a text of three sentences that chunk_text split into several chunks,
\* one of them holding two sentences
C2_Witness ==
    /\ ct_pc = "done"
    /\ Len(Sentences(ct_text)) >= 3
    /\ Len(ct_out) >= 2
    /\ \E i \in 1..Len(ct_out) : Len(ChunkSentences(ct_out[i])) >= 2

\* ----------------------------------------------------------------------
\* helpers for stating the claims about openai_tts
CallsFor(tr, ci) == {i \in DOMAIN tr : tr[i].ev = "call" /\ tr[i].chunk = ci}
FailsFor(tr, ci) == {i \in CallsFor(tr, ci) : tr[i].result # "ok"}
OksFor(tr, ci) == {i \in CallsFor(tr, ci) : tr[i].result = "ok"}
RaisedAt(tr, ci) == \E i \in DOMAIN tr : tr[i].ev = "raise" /\ tr[i].chunk = ci

\* C3: a chunk on which the provider fails fewer than `retries` times and
\* then succeeds is synthesized with at most `retries` provider calls and
\* without an error reaching the caller; when that holds of every chunk,
\* openai_tts returns.
C3_RetryThenSucceed ==
    tts_res.status # "none" =>
        /\ \A ci \in 1..Len(tts_res.chunks) :
              ( /\ CallsFor(tts_res.trace, ci) # {}
                /\ Cardinality(FailsFor(tts_res.trace, ci)) < Retries )
              => /\ Cardinality(OksFor(tts_res.trace, ci)) = 1
                 /\ Cardinality(CallsFor(tts_res.trace, ci)) <= Retries
                 /\ ~RaisedAt(tts_res.trace, ci)
        /\ (\A ci \in 1..Len(tts_res.chunks) :
               Cardinality(FailsFor(tts_res.trace, ci)) < Retries)
           => tts_res.status = "returned"

\* the provider failed twice on a chunk, then succeeded, and openai_tts
\* returned
C3_Witness ==
    /\ tts_res.status = "returned"
    /\ \E ci \in 1..Len(tts_res.chunks) :
          /\ Cardinality(FailsFor(tts_res.trace, ci)) = Retries - 1
          /\ Cardinality(OksFor(tts_res.trace, ci)) = 1

\* ----------------------------------------------------------------------
\* helpers for stating the claims about the app
SynthIndices == {synth_log[k].index : k \in 1..Len(synth_log)}
EmbedIndices == {embed_log[k] : k \in 1..Len(embed_log)}
InOrder(log) == \A k \in 1..Len(log) : log[k] = k - 1
SynthOrder == [k \in 1..Len(synth_log) |-> synth_log[k].index]

\* the fixed fallback sentence the claim speaks of (the script has none)
FallbackNarration == <<"f">>

\* C4: when openai_tts has exhausted its retries on a slide, the run still
\* hands every slide to synthesis and saves the output deck; the failing
\* slide has at most one (placeholder) audio and its narration in its notes.
C4_SynthesisFailureIsolated ==
    (pc = "idle" /\ tts_raised # {}) =>
        /\ \A i \in 1..Len(slides) : slides[i].index \in SynthIndices
        /\ output.state = "complete"
        /\ \A k \in tts_raised :
              /\ Len(output.deck[k + 1].media) <= 1
              /\ output.deck[k + 1].notes = slides[k + 1].notes

\* C5: when generate_narration has failed for a slide, the load still ends
\* with ppt_loaded and one record per slide, none marked skip, the failing
\* slide narrated by the fallback sentence.
C5_GenerationFailureIsolated ==
    (pc = "idle" /\ gen_raised # {}) =>
        /\ ppt_loaded
        /\ Len(slides) = Len(ppt_file.deck)
        /\ \A i \in 1..Len(slides) : ~slides[i].skip
        /\ \A k \in gen_raised : slides[k + 1].notes = FallbackNarration

\* C6: while the user has made no edit, a slide that came with notes text
\* keeps it as its narration, and the saved deck's notes are that text.
C6_ExistingNotesKept ==
    (ppt_loaded /\ ~edited) =>
        \A i \in 1..Len(slides) :
            ppt_path.deck[i].notes # <<>> =>
                /\ slides[i].notes = ppt_path.deck[i].notes
                /\ output.state = "complete" =>
                      output.deck[i].notes = ppt_path.deck[i].notes

\* C7: with no slide skipped, slides are synthesized and embedded one at a
\* time in deck order (slide i embedded before slide i+1 is synthesized,
\* none twice), and a saved deck of N slides has had exactly N embeds, one
\* new audio on each slide.
C7_OneEmbedPerSlideInOrder ==
    (\A i \in 1..Len(slides) : ~slides[i].skip) =>
        /\ InOrder(SynthOrder)
        /\ InOrder(embed_log)
        /\ Len(embed_log) <= Len(synth_log)
        /\ Len(synth_log) <= Len(embed_log) + 1
        /\ output.state = "complete" =>
              /\ Len(embed_log) = Len(ppt_path.deck)
              /\ Len(output.deck) = Len(ppt_path.deck)
              /\ \A i \in 1..Len(output.deck) : Len(output.deck[i].media) = 1

\* a deck of at least two slides has been saved
C7_Witness ==
    /\ output.state = "complete"
    /\ Len(output.deck) >= 2
    /\ embed_log = <<0, 1>>

\* C8: a slide other than the first whose extracted text is shorter than
\* the threshold is marked skip, is neither synthesized nor embedded, and
\* keeps its notes in the saved deck.
C8_SparseSlideSkipped ==
    ppt_loaded =>
        \A i \in 2..Len(slides) :
            ~is_text_clear(ppt_path.deck[i].text) =>
                /\ slides[i].skip
                /\ slides[i].index \notin SynthIndices
                /\ slides[i].index \notin EmbedIndices
                /\ output.state = "complete" =>
                      /\ output.deck[i].media = <<>>
                      /\ output.deck[i].notes = ppt_path.deck[i].notes

\* C9: a record with skip = true is never synthesized or embedded, and a
\* record with skip = false reaches synthesis with a non-empty narration.
C9_SkipAndNarrationInvariant ==
    /\ \A i \in 1..Len(slides) :
          slides[i].skip =>
              /\ slides[i].index \notin SynthIndices
              /\ slides[i].index \notin EmbedIndices
    /\ \A k \in 1..Len(synth_log) :
          ~slides[synth_log[k].index + 1].skip => synth_log[k].text # <<>>

\* C10: a run calls prs.save at most once, and only when every slide has
\* been synthesized, embedded and had its notes written; a run that ended
\* before that has written no deck file, and a download is offered only
\* for a completely written deck.
C10_SaveOnceAtEnd ==
    /\ saves <= 1
    /\ saves = 1 =>
          /\ gi = Len(slides) + 1
          /\ Len(synth_log) = Len(slides)
          /\ Len(embed_log) = Len(slides)
    /\ saves = 0 => output.state = "none"
    /\ last = "offered" => (saves = 1 /\ output.state = "complete")
    /\ last \in {"gen_failed", "embed_failed", "interrupted"} =>
          output.state = "none"

\* a run over two slides has saved its deck and offers it
C10_Witness ==
    /\ last = "offered"
    /\ saves = 1
    /\ Len(slides) >= 2
    /\ output.state = "complete"

\* slides that have been through synthesis, embedding and notes writing
Finished == IF gi = 0 THEN 0 ELSE gi - 1

\* C11: the progress bar shows (slides completed / total): when it shows
\* k/total exactly k slides have finished, so it shows total/total only
\* after the last slide has finished.
C11_ProgressCountsFinished ==
    /\ progress = Finished
    /\ (Len(slides) >= 1 /\ progress = Len(slides)) => Finished = Len(slides)

\* C12: a failure of add_audio_to_slide on a slide is local to it: the run
\* still hands every slide to synthesis and saves the deck.  (A failure of
\* the notes write is swallowed by the try/except and ends nothing; the
\* script keeps no per-slide status in which either could be reported.)
C12_EmbedFailureLocal ==
    (pc = "idle" /\ embed_raised # {}) =>
        /\ \A i \in 1..Len(slides) : slides[i].index \in SynthIndices
        /\ output.state = "complete"

\* ----------------------------------------------------------------------
\* the bytes of the successful responses, in chunk order
RECURSIVE OkBytes(_, _)
OkBytes(ci, n) ==
    IF ci > n THEN <<>> ELSE Streamed(ci, "ok") \o OkBytes(ci + 1, n)

\* C13: when openai_tts returns, the bytes written are exactly the
\* successful responses of the chunks, in chunk order, with no byte of an
\* attempt that failed while streaming.
C13_OnlySuccessfulBytes ==
    tts_res.status = "returned" =>
        tts_res.audio.bytes = OkBytes(1, Len(tts_res.chunks))

\* the sleeps of chunk ci in the trace, in order
RECURSIVE SleepsOf(_, _)
SleepsOf(tr, ci) ==
    IF tr = <<>> THEN <<>>
    ELSE IF Head(tr).ev = "sleep" /\ Head(tr).chunk = ci
    THEN <<Head(tr)>> \o SleepsOf(Tail(tr), ci)
    ELSE SleepsOf(Tail(tr), ci)

\* C14: within a chunk's retry loop the k-th failed attempt is followed by
\* a sleep of 2*k seconds (so the delays grow), and a sleep happens only
\* between a failed attempt and a retry of the chunk, never before giving up.
C14_BackoffBetweenRetries ==
    tts_res.status # "none" =>
        LET tr == tts_res.trace
        IN  /\ \A ci \in 1..Len(tts_res.chunks) :
                  LET sl == SleepsOf(tr, ci)
                  IN  \A k \in 1..Len(sl) : sl[k].secs = BackoffBase * k
            /\ \A i \in 1..Len(tr) :
                  tr[i].ev = "sleep" =>
                      /\ i > 1
                      /\ tr[i - 1].ev = "call"
                      /\ tr[i - 1].result # "ok"
                      /\ i < Len(tr)
                      /\ tr[i + 1].ev = "call"
                      /\ tr[i + 1].chunk = tr[i].chunk

\* C15: chunk_text returns no empty chunk, for any text and max_chars >= 1.
C15_NoEmptyChunk ==
    ct_pc = "done" => \A i \in 1..Len(ct_out) : ct_out[i] # <<>>

\* C16: when the provider fails on every attempt for a chunk, openai_tts
\* calls it exactly `retries` times for that chunk and raises; no later
\* chunk is submitted and apply_pitch is not applied; it raises in no
\* other case.
C16_ExhaustedRetriesRaise ==
    tts_res.status # "none" =>
        LET tr == tts_res.trace
            exhausted == {ci \in 1..Len(tts_res.chunks) :
                            /\ OksFor(tr, ci) = {}
                            /\ Cardinality(FailsFor(tr, ci)) >= Retries}
        IN  /\ (tts_res.status = "raised") = (exhausted # {})
            /\ \A ci \in exhausted :
                  /\ Cardinality(CallsFor(tr, ci)) = Retries
                  /\ tr[Len(tr)] = RaiseEv(ci)
                  /\ \A cj \in 1..Len(tts_res.chunks) :
                        cj > ci => CallsFor(tr, cj) = {}
                  /\ ~tts_res.audio.pitched

\* the provider failed three times on the first of two chunks, with a
\* pitch change asked for
C16_Witness ==
    /\ tts_res.status = "raised"
    /\ Len(tts_res.chunks) >= 2
    /\ RaisedAt(tts_res.trace, 1)
    /\ tts_pitch # 0

C18_RunsStartFromUpload ==
    /\ (pc = "progress" /\ gi = 1) =>
          /\ Len(prs) = Len(ppt_path.deck)
          /\ \A i \in 1..Len(prs) :
                /\ prs[i].media = <<>>
                /\ prs[i].notes = ppt_path.deck[i].notes
    /\ output.state = "complete" =>
          \A i \in 1..Len(output.deck) : Len(output.deck[i].media) = 1

\* a run started right after a finished run has saved its deck
C18_Witness ==
    /\ again
    /\ output.state = "complete"
    /\ Len(output.deck) >= 1

\* what the notes of slide i hold after its notes step: the narration, or
\* what the deck had when the write failed inside the try
NotesAfterWrite(i) == {slides[i].notes, ppt_path.deck[i].notes}

PreviewEnds == {"previewed", "preview_failed"}

C19_State ==
    /\ \A k \in 1..Len(synth_log) :
          synth_log[k].text = slides[synth_log[k].index + 1].notes
    /\ pc \in Running =>
          \A i \in 1..Len(prs) : i < gi => prs[i].notes \in NotesAfterWrite(i)
    /\ output.state = "complete" =>
          \A i \in 1..Len(output.deck) :
              output.deck[i].notes \in NotesAfterWrite(i)

C19_PreviewStep ==
    last' \in PreviewEnds =>
        /\ slides' = slides
        /\ ppt_path' = ppt_path
        /\ ppt_file' = ppt_file
        /\ ppt_loaded' = ppt_loaded

\* C19: in a final-generation run the text handed to openai_tts for a slide
\* and the text written to its notes are the record's current narration
\* (the last edit of the text area), and a preview changes neither a slide
\* record nor the deck.
C19_SameTextSynthesizedAndWritten ==
    []C19_State /\ [][C19_PreviewStep]_vars

\* a deck was saved whose first slide carries an edited narration in its
\* notes
C19_Witness ==
    /\ edited
    /\ output.state = "complete"
    /\ Len(output.deck) >= 1
    /\ output.deck[1].notes = slides[1].notes
    /\ slides[1].notes # ppt_path.deck[1].notes
    /\ synth_log[1].text = slides[1].notes
====
